---- MODULE Spec2Model ----
(***************************************************************************)
(* Model of the columnar chunk vector ChunkedVecInt                        *)
(* (tidb_query_datatype/src/codec/chunk/chunkedvec.rs) and of the FIRST    *)
(* aggregate function state AggrFnStateFirst                               *)
(* (tidb_query_vec_aggr/src/impl_first.rs).                                *)
(*                                                                         *)
(* Vec<u8> buffers are sequences of bytes (0..255); a Rust index i is the  *)
(* sequence position i + 1.  Option<T> is <<>> (None) or <<x>> (Some(x)).  *)
(***************************************************************************)
EXTENDS Integers, Sequences, FiniteSets, TLC

VARIABLES
    vec,      \* the ChunkedVecInt: length, null_cnt, null_bitmap, data
    cap,      \* capacities reserved by ChunkedVecInt::new
    ops,      \* history: the Option<Int> given by each successful append
    ret,      \* the last ChunkedVecInt call and its Result
    state_ty, \* T2, the type parameter AggrFnStateFirst was instantiated with
    state,    \* the AggrFnStateFirst
    result,   \* target, the slice of output vectors given to push_result
    column,   \* the physical column of the batch being aggregated
    call,     \* the last AggrFnStateFirst call, its arguments and the state before it
    out_schema, \* the output schema parse appends to
    out_exp,    \* the output expressions parse appends to
    pcall       \* the last parser / dispatch-table call, its descriptor and outcome

vars == <<vec, cap, ops, ret, state_ty, state, result, column, call,
          out_schema, out_exp, pcall>>
vecVars == <<vec, cap, ops, ret>>
firstVars == <<state_ty, state, result, column, call>>
parseVars == <<out_schema, out_exp, pcall>>

(* ------------------------------ bounds --------------------------------- *)
MaxRows == 9        \* appends per vector (two bitmap bytes are in use at 9)
MaxHint == 3        \* largest capacity hint given to new
MaxIdx == 17        \* largest row index probed by is_null / get_ref
Ints == {-233, 233} \* values appended (Scenario A's 233 and -233)
MaxRepeat == 2      \* largest repeat_times given to update_repeat
MaxCol == 2         \* rows of a physical column given to update_vector
MaxLogical == 2     \* entries of a logical row list
MaxParse == 2       \* aggregate descriptors parsed into one output schema
MaxOffset == 1      \* largest column offset of a child column reference
MaxOut == 2         \* push_result calls per accumulator
Vals == {1, 2}      \* values fed to the accumulator
Types == {"Int", "Bytes"} \* evaluable types of update calls and states

(* ------------------------------ Option --------------------------------- *)
None == <<>>
Some(x) == <<x>>
IsSome(o) == Len(o) = 1
Unwrap(o) == o[1]

(* --------------------------- Vec<u8> helpers --------------------------- *)
\* Vec::resize(new_len, value)
Resize(buf, new_len, value) ==
    IF new_len <= Len(buf)
    THEN SubSeq(buf, 1, new_len)
    ELSE buf \o [k \in 1..(new_len - Len(buf)) |-> value]

\* slice::get(idx)
Get(buf, idx) == IF idx < Len(buf) THEN Some(buf[idx + 1]) ELSE None

\* byte & (1 << pos) != 0
TestBit(byte, pos) == (byte \div (2 ^ pos)) % 2 = 1

\* byte | (1 << pos)
OrBit(byte, pos) == IF TestBit(byte, pos) THEN byte ELSE byte + 2 ^ pos

(* ------------------------- i64 little-endian --------------------------- *)
ELEMENT_SIZE == 8

\* The n low-order bytes of the two's complement of v, least significant first.
RECURSIVE LeBytes(_, _)
LeBytes(v, n) == IF n = 0 THEN <<>> ELSE <<v % 256>> \o LeBytes(v \div 256, n - 1)

\* The signed integer whose two's complement little-endian bytes are b.
RECURSIVE LeValue(_)
LeValue(b) ==
    IF Len(b) = 1
    THEN (IF b[1] >= 128 THEN b[1] - 256 ELSE b[1])
    ELSE LeValue(Tail(b)) * 256 + b[1]

\* NumberEncoder::write_i64_le on Vec<u8>: appends the 8 bytes of v, or fails
\* leaving the buffer as it was.
write_i64_le(buf, v, enc_ok) ==
    IF enc_ok
    THEN [res |-> "Ok", buf |-> buf \o LeBytes(v, ELEMENT_SIZE)]
    ELSE [res |-> "Err", buf |-> buf]

\* transmute::<&u8, &Int>(&ref_data[0]) on a little-endian target
transmute_Int(ref_data) == LeValue(ref_data)

(* ---------------------------- ChunkedVecInt ---------------------------- *)
new(init_cap) ==
    [length |-> 0, null_cnt |-> 0, null_bitmap |-> <<>>, data |-> <<>>]

new_cap(init_cap) ==
    [data |-> ELEMENT_SIZE * init_cap, null_bitmap |-> (init_cap + 7) \div 8]

Returned(x) == [tag |-> "ret", val |-> x]
Panic == [tag |-> "panic"]

\* is_null with the bit test inverted
is_null_inverted(self, row_idx) ==
    IF self.null_cnt = 0
    THEN Returned(FALSE)
    ELSE LET null_byte == Get(self.null_bitmap, row_idx \div 8) IN
         IF IsSome(null_byte)
         THEN Returned(TestBit(Unwrap(null_byte), row_idx % 8))
         ELSE Panic

is_null(self, row_idx) ==
    IF self.null_cnt = 0
    THEN Returned(FALSE)
    ELSE LET null_byte == Get(self.null_bitmap, row_idx \div 8) IN
         IF IsSome(null_byte)
         THEN Returned(~TestBit(Unwrap(null_byte), row_idx % 8))
         ELSE Panic

\* append_null_bitmap that counts every appended row as a null
append_null_bitmap_countall(self, on) ==
    LET idx == self.length \div 8
        grown == IF idx >= Len(self.null_bitmap)
                 THEN Append(self.null_bitmap, 0)
                 ELSE self.null_bitmap
    IN  IF on
        THEN LET pos == self.length % 8 IN
             [self EXCEPT !.null_bitmap =
                 [grown EXCEPT ![idx + 1] = OrBit(grown[idx + 1], pos)],
                          !.null_cnt = self.null_cnt + 1]
        ELSE [self EXCEPT !.null_bitmap = grown, !.null_cnt = self.null_cnt + 1]

\* append_null_bitmap that pushes a fresh bitmap byte when the current one
\* has room left only for the last row (idx + 1 >= len)
append_null_bitmap_early(self, on) ==
    LET idx == self.length \div 8
        grown == IF idx + 1 >= Len(self.null_bitmap)
                 THEN Append(self.null_bitmap, 0)
                 ELSE self.null_bitmap
    IN  IF on
        THEN LET pos == self.length % 8 IN
             [self EXCEPT !.null_bitmap =
                 [grown EXCEPT ![idx + 1] = OrBit(grown[idx + 1], pos)]]
        ELSE [self EXCEPT !.null_bitmap = grown, !.null_cnt = self.null_cnt + 1]

append_null_bitmap(self, on) ==
    LET idx == self.length \div 8
        grown == IF idx >= Len(self.null_bitmap)
                 THEN Append(self.null_bitmap, 0)
                 ELSE self.null_bitmap
    IN  IF on
        THEN LET pos == self.length % 8 IN
             [self EXCEPT !.null_bitmap =
                 [grown EXCEPT ![idx + 1] = OrBit(grown[idx + 1], pos)]]
        ELSE [self EXCEPT !.null_bitmap = grown, !.null_cnt = self.null_cnt + 1]

\* append_null that records the null without reserving its slot in data
append_null_noslot(self) ==
    LET s1 == append_null_bitmap(self, FALSE)
    IN  [s1 EXCEPT !.length = s1.length + 1]

\* append_null that fills the null row's slot with 0xff bytes
append_null_garbage(self) ==
    LET s1 == append_null_bitmap(self, FALSE)
        len == ELEMENT_SIZE + Len(s1.data)
    IN  [s1 EXCEPT !.data = Resize(s1.data, len, 255), !.length = s1.length + 1]

append_null(self) ==
    LET s1 == append_null_bitmap(self, FALSE)
        len == ELEMENT_SIZE + Len(s1.data)
    IN  [s1 EXCEPT !.data = Resize(s1.data, len, 0), !.length = s1.length + 1]

\* finish_append that forgets to advance length
finish_append_nolen(self) ==
    LET s1 == append_null_bitmap(self, TRUE)
    IN  [s1 EXCEPT !.data = Resize(s1.data, s1.length * ELEMENT_SIZE, 0)]

finish_append(self) ==
    LET s1 == append_null_bitmap(self, TRUE)
        s2 == [s1 EXCEPT !.length = s1.length + 1]
    IN  [s2 EXCEPT !.data = Resize(s2.data, s2.length * ELEMENT_SIZE, 0)]

\* append that ignores the Result of the write and finishes anyway
append_unchecked(self, v, enc_ok) ==
    LET w == write_i64_le(self.data, v, enc_ok)
        s1 == [self EXCEPT !.data = w.buf]
    IN  [self |-> finish_append(s1), res |-> w.res]

append(self, v, enc_ok) ==
    LET w == write_i64_le(self.data, v, enc_ok)
        s1 == [self EXCEPT !.data = w.buf]
    IN  IF w.res = "Err"
        THEN [self |-> s1, res |-> "Err"]
        ELSE [self |-> finish_append(s1), res |-> "Ok"]

get_ref(self, row_idx) ==
    LET n == is_null(self, row_idx) IN
    IF n.tag = "panic"
    THEN Panic
    ELSE IF n.val
    THEN Returned(None)
    ELSE LET start == row_idx * ELEMENT_SIZE
             end == start + ELEMENT_SIZE
         IN  IF end > Len(self.data)
             THEN Panic
             ELSE Returned(Some(transmute_Int(SubSeq(self.data, start + 1, end))))

len(self) == self.length

is_empty(self) == len(self) = 0

RECURSIVE from_vec_loop(_, _)
from_vec_loop(x, data) ==
    IF data = <<>>
    THEN x
    ELSE from_vec_loop(
             IF IsSome(Head(data))
             THEN append(x, Unwrap(Head(data)), TRUE).self
             ELSE append_null(x),
             Tail(data))

from_vec(data) == from_vec_loop(new(Len(data)), data)

(* ------------------------- ChunkedVecInt actions ----------------------- *)
AppendValue(v) ==
    /\ len(vec) < MaxRows
    /\ \E enc_ok \in BOOLEAN :
        LET r == append(vec, v, enc_ok) IN
        /\ vec' = r.self
        /\ ret' = [op |-> "append", res |-> r.res, enc_ok |-> enc_ok]
        /\ ops' = IF r.res = "Ok" THEN Append(ops, Some(v)) ELSE ops
    /\ UNCHANGED <<cap, firstVars, parseVars>>

AppendNull ==
    /\ len(vec) < MaxRows
    /\ vec' = append_null(vec)
    /\ ret' = [op |-> "append_null", res |-> "Ok", enc_ok |-> TRUE]
    /\ ops' = Append(ops, None)
    /\ UNCHANGED <<cap, firstVars, parseVars>>

(* ---------------------- ChunkedVecInt properties ----------------------- *)
Rows == 0..(len(vec) - 1)

\* C1: for every row i < len(), is_null(i) returns true exactly when the
\* i-th successful append was append_null(), both on the null_cnt = 0 fast
\* path and once the bitmap is consulted.
C1_IsNullPattern ==
    \A i \in Rows : is_null(vec, i) = Returned(ops[i + 1] = None)

\* A null appended after a non-null row (so is_null left the fast path), and
\* a null row in the second bitmap byte next to a non-null row in the first.
C1_Witness ==
    /\ len(vec) >= 9
    /\ ops[1] # None /\ ops[2] = None
    /\ is_null(vec, 0) = Returned(FALSE)
    /\ is_null(vec, 1) = Returned(TRUE)
    /\ is_null(vec, 7) = Returned(FALSE)
    /\ is_null(vec, 8) = Returned(TRUE)

\* C2: for every row i < len(), get_ref(i) returns the value appended at row
\* i (negative values included) or no value when the row was append_null();
\* a later call never changes what get_ref returns for an existing row.
C2_GetRefRoundTrip ==
    /\ [](\A i \in Rows : get_ref(vec, i) = Returned(ops[i + 1]))
    /\ [][\A i \in Rows : get_ref(vec', i) = get_ref(vec, i)]_vars

\* A negative value read back from a row that follows a null row.
C2_Witness ==
    \E i \in Rows :
        /\ i >= 2
        /\ ops[i] = None
        /\ ops[i + 1] = Some(-233)
        /\ get_ref(vec, i) = Returned(Some(-233))
        /\ get_ref(vec, i - 1) = Returned(None)
        /\ len(vec) > i + 1

\* C3: len() equals the number of successful appends whatever the capacity
\* hint was, every successful append adds exactly 1 to len(), a failed one
\* adds nothing, and is_empty() holds exactly when nothing was appended.
C3_LenCountsAppends ==
    /\ [](len(vec) = Len(ops) /\ (is_empty(vec) <=> Len(ops) = 0))
    /\ [][len(vec') = len(vec) + (IF ret'.res = "Ok" THEN 1 ELSE 0)]_vars

\* A vector created with a non-zero hint holding a mix of values and nulls,
\* more rows than the hint reserved.
C3_Witness ==
    /\ cap.data = ELEMENT_SIZE * MaxHint
    /\ len(vec) > MaxHint
    /\ vec.null_cnt > 0 /\ vec.null_cnt < len(vec)
    /\ ~is_empty(vec)

\* C4: is_null(row_index) fails with an index error for every
\* row_index >= length.
C4_IsNullOutOfRangeFails ==
    \A idx \in len(vec)..MaxIdx : is_null(vec, idx) = Panic

\* C5: get_ref(row_index) fails for every row_index >= length; it returns
\* neither a value nor "no value".
C5_GetRefOutOfRangeFails ==
    \A idx \in len(vec)..MaxIdx : get_ref(vec, idx) = Panic

\* C6: append fails exactly when the encode step fails, and a failed append
\* leaves length, null_cnt, null_bitmap and data as they were.
C6_AppendAtomic ==
    /\ [](ret.op = "append" => (ret.res = "Err" <=> ~ret.enc_ok))
    /\ [][(ret'.op = "append" /\ ret'.res = "Err") => vec' = vec]_vars

\* A failed append on a vector that already holds values and nulls.
C6_Witness ==
    /\ ret.op = "append" /\ ret.res = "Err"
    /\ vec.null_cnt > 0 /\ vec.null_cnt < len(vec)
    /\ Len(vec.data) = len(vec) * ELEMENT_SIZE

\* The presence bit of a row position, read from the bitmap (clear when the
\* bitmap has no byte for it).
PresenceBit(self, pos) ==
    LET byte == Get(self.null_bitmap, pos \div 8) IN
    IsSome(byte) /\ TestBit(Unwrap(byte), pos % 8)

\* The byte range [8*i, 8*i+8) of data.
Slot(self, i) == SubSeq(self.data, ELEMENT_SIZE * i + 1, ELEMENT_SIZE * i + ELEMENT_SIZE)

\* C18: data holds exactly length * ELEMENT_SIZE bytes, so every row below
\* length owns 8 bytes, and the slot of a null row is zero-filled.
C18_DataSizeInvariant ==
    /\ Len(vec.data) = len(vec) * ELEMENT_SIZE
    /\ ELEMENT_SIZE = 8
    /\ \A i \in Rows :
        /\ Len(Slot(vec, i)) = 8
        /\ ops[i + 1] = None => Slot(vec, i) = <<0, 0, 0, 0, 0, 0, 0, 0>>

\* A vector whose null rows sit between value rows.
C18_Witness ==
    /\ len(vec) >= 3
    /\ ops[1] # None /\ ops[2] = None /\ ops[3] # None
    /\ Slot(vec, 0) # Slot(vec, 1)
    /\ Slot(vec, 1) = <<0, 0, 0, 0, 0, 0, 0, 0>>

\* C19: null_cnt is the number of rows below length whose presence bit is
\* clear, which is the number of append_null calls; hence null_cnt <= length
\* and null_cnt = 0 means every row below length has its bit set.
C19_NullCountInvariant ==
    /\ vec.null_cnt = Cardinality({i \in Rows : ~PresenceBit(vec, i)})
    /\ vec.null_cnt = Cardinality({i \in Rows : ops[i + 1] = None})
    /\ vec.null_cnt <= len(vec)
    /\ vec.null_cnt = 0 => \A i \in Rows : PresenceBit(vec, i)

\* Nulls in both bitmap bytes, fewer nulls than rows.
C19_Witness ==
    /\ len(vec) >= 9
    /\ vec.null_cnt >= 2 /\ vec.null_cnt < len(vec)
    /\ ~PresenceBit(vec, 3) /\ ~PresenceBit(vec, 8) /\ PresenceBit(vec, 7)

\* C20: the null bitmap holds exactly ceil(length / 8) bytes; an append adds
\* one byte exactly when length was a multiple of 8 before it; every bit at a
\* position >= length is clear.
C20_BitmapSizeInvariant ==
    /\ [](/\ Len(vec.null_bitmap) = (len(vec) + 7) \div 8
          /\ \A pos \in len(vec)..MaxIdx : ~PresenceBit(vec, pos))
    /\ [][len(vec') = len(vec) + 1 =>
             Len(vec'.null_bitmap) =
                 Len(vec.null_bitmap) + (IF len(vec) % 8 = 0 THEN 1 ELSE 0)]_vars

\* The ninth row has just been appended as a value: two bitmap bytes, the
\* second holding only that row's bit.
C20_Witness ==
    /\ len(vec) = 9
    /\ ret.op = "append" /\ ret.res = "Ok"
    /\ Len(vec.null_bitmap) = 2
    /\ vec.null_bitmap[2] = 1

(* --------------------------- AggrFnStateFirst -------------------------- *)
\* A borrowed value T (EvaluableRef) and its owned form T::EvaluableType.
Ref(x) == [ref |-> x]
to_owned_value(r) == r.ref
clone(x) == x

\* value.map(|x| x.to_owned_value())
map_to_owned_value(value) ==
    IF IsSome(value) THEN Some(to_owned_value(Unwrap(value))) ELSE None

\* the borrowed Option<T> of an owned Option<T::EvaluableType>
as_option_ref(owned) ==
    IF IsSome(owned) THEN Some(Ref(Unwrap(owned))) ELSE None

Empty == [tag |-> "Empty"]
Valued(v) == [tag |-> "Valued", v |-> v]

AggrFnStateFirst_new == Empty

Done(self, res) == [self |-> self, res |-> res]

\* update_unsafe that keeps the latest value instead of the first
update_unsafe_overwrite(self, value) ==
    Done(Valued(map_to_owned_value(value)), "Ok")

\* update_unsafe that waits for the first non-null value
update_unsafe_skipnull(self, value) ==
    IF self.tag = "Empty" /\ IsSome(value)
    THEN Done(Valued(map_to_owned_value(value)), "Ok")
    ELSE Done(self, "Ok")

update_unsafe(self, value) ==
    IF self.tag = "Empty"
    THEN Done(Valued(map_to_owned_value(value)), "Ok")
    ELSE Done(self, "Ok")

\* update_repeat_unsafe that stores the repeated value whatever the state holds
update_repeat_unsafe_store(self, value, repeat_times) ==
    IF ~(repeat_times > 0)
    THEN Done(self, "panic")
    ELSE Done(Valued(map_to_owned_value(value)), "Ok")

\* update_repeat_unsafe without the repeat_times assertion
update_repeat_unsafe_noassert(self, value, repeat_times) ==
    update_unsafe(self, value)

update_repeat_unsafe(self, value, repeat_times) ==
    IF ~(repeat_times > 0)
    THEN Done(self, "panic")
    ELSE update_unsafe(self, value)

\* ChunkRef::get_option_ref: the value at a physical row, or None; a row
\* outside the column is an index violation.
get_option_ref(physical_values, idx) ==
    IF idx < Len(physical_values)
    THEN Returned(as_option_ref(physical_values[idx + 1]))
    ELSE Panic

\* update_vector_unsafe that reads physical row 0 instead of the first logical row
update_vector_unsafe_physical(self, physical_values, logical_rows) ==
    IF logical_rows # <<>>
    THEN LET value == get_option_ref(physical_values, 0) IN
         IF value.tag = "panic"
         THEN Done(self, "panic")
         ELSE update_unsafe(self, value.val)
    ELSE Done(self, "Ok")

\* update_vector_unsafe that tests the physical column, not the row list, for emptiness
update_vector_unsafe_column(self, physical_values, logical_rows) ==
    IF physical_values # <<>>
    THEN LET physical_index == IF logical_rows # <<>> THEN Head(logical_rows) ELSE 0
             value == get_option_ref(physical_values, physical_index)
         IN  IF value.tag = "panic"
             THEN Done(self, "panic")
             ELSE update_unsafe(self, value.val)
    ELSE Done(self, "Ok")

update_vector_unsafe(self, physical_values, logical_rows) ==
    IF logical_rows # <<>>
    THEN LET physical_index == Head(logical_rows)
             value == get_option_ref(physical_values, physical_index)
         IN  IF value.tag = "panic"
             THEN Done(self, "panic")
             ELSE update_unsafe(self, value.val)
    ELSE Done(self, "Ok")

\* a default impl that applies the update instead of failing
default_update_unsafe_apply(self, value) == update_unsafe(self, value)

\* The default impl for T1 different from the state's T2.
default_update_unsafe(self, value) == Done(self, "panic")
default_update_repeat_unsafe(self, value, repeat_times) == Done(self, "panic")
default_update_vector_unsafe(self, physical_values, logical_rows) == Done(self, "panic")

\* push_result that appends nothing while the state is Empty
push_result_skip_empty(self, target) ==
    IF Len(target) # 1
    THEN [target |-> target, res |-> "panic"]
    ELSE IF self.tag = "Valued"
    THEN [target |-> [target EXCEPT ![1] = Append(target[1], clone(self.v))], res |-> "Ok"]
    ELSE [target |-> target, res |-> "Ok"]

push_result(self, target) ==
    IF Len(target) # 1
    THEN [target |-> target, res |-> "panic"]
    ELSE LET res == IF self.tag = "Valued" THEN clone(self.v) ELSE None IN
         [target |-> [target EXCEPT ![1] = Append(target[1], res)], res |-> "Ok"]

(* ------------------------ function dispatch table --------------------- *)
FnMeta(name, T) == [name |-> name, T |-> T]

\* One entry per match arm of map_expr_node_to_rpn_func.
RpnFnTable ==
    [IfNullInt |-> FnMeta("if_null", "Int"),
     IfNullReal |-> FnMeta("if_null", "Real"),
     IfNullString |-> FnMeta("if_null", "Bytes"),
     IfNullDecimal |-> FnMeta("if_null", "Decimal"),
     IfNullTime |-> FnMeta("if_null", "DateTime"),
     IfNullDuration |-> FnMeta("if_null", "Duration"),
     IfNullJson |-> FnMeta("if_null", "Json"),
     IfInt |-> FnMeta("if_condition", "Int"),
     IfReal |-> FnMeta("if_condition", "Real"),
     IfDecimal |-> FnMeta("if_condition", "Decimal"),
     IfTime |-> FnMeta("if_condition", "DateTime"),
     IfString |-> FnMeta("if_condition", "Bytes"),
     IfDuration |-> FnMeta("if_condition", "Duration"),
     IfJson |-> FnMeta("if_condition", "Json"),
     CaseWhenInt |-> FnMeta("case_when", "Int"),
     CaseWhenReal |-> FnMeta("case_when", "Real"),
     CaseWhenString |-> FnMeta("case_when", "Bytes"),
     CaseWhenDecimal |-> FnMeta("case_when", "Decimal"),
     CaseWhenTime |-> FnMeta("case_when", "DateTime"),
     CaseWhenDuration |-> FnMeta("case_when", "Duration"),
     CaseWhenJson |-> FnMeta("case_when", "Json"),
     UncompressedLength |-> FnMeta("uncompressed_length", "none"),
     Md5 |-> FnMeta("md5", "none"),
     Sha1 |-> FnMeta("sha1", "none"),
     Sha2 |-> FnMeta("sha2", "none"),
     RandomBytes |-> FnMeta("random_bytes", "none"),
     JsonDepthSig |-> FnMeta("json_depth", "none"),
     JsonTypeSig |-> FnMeta("json_type", "none"),
     JsonSetSig |-> FnMeta("json_set", "none"),
     JsonReplaceSig |-> FnMeta("json_replace", "none"),
     JsonInsertSig |-> FnMeta("json_insert", "none"),
     JsonArraySig |-> FnMeta("json_array", "none"),
     JsonObjectSig |-> FnMeta("json_object", "none"),
     JsonMergeSig |-> FnMeta("json_merge", "none"),
     JsonUnquoteSig |-> FnMeta("json_unquote", "none"),
     JsonExtractSig |-> FnMeta("json_extract", "none"),
     JsonLengthSig |-> FnMeta("json_length", "none"),
     JsonRemoveSig |-> FnMeta("json_remove", "none"),
     JsonKeysSig |-> FnMeta("json_keys", "none"),
     JsonKeys2ArgsSig |-> FnMeta("json_keys", "none")]

\* ScalarFuncSig values the match has no arm for
OtherSigs == {"AbsInt", "PlusInt", "LtInt", "Unspecified"}

ScalarFuncSigs == DOMAIN RpnFnTable \cup OtherSigs

Outcome(res, err, val) == [res |-> res, err |-> err, val |-> val]

\* map_expr_node_to_rpn_func whose fallback arm hands out a default function
map_expr_node_to_rpn_func_default(expr) ==
    LET value == expr.sig IN
    IF value \in DOMAIN RpnFnTable
    THEN Outcome("Ok", "", Some(RpnFnTable[value]))
    ELSE Outcome("Ok", "", Some(RpnFnTable["IfNullInt"]))

map_expr_node_to_rpn_func(expr) ==
    LET value == expr.sig IN
    IF value \in DOMAIN RpnFnTable
    THEN Outcome("Ok", "", Some(RpnFnTable[value]))
    ELSE Outcome("Err", "ScalarFunction is not supported in batch mode", None)

(* ---------------------- AggrFnDefinitionParserFirst -------------------- *)
\* tipb::Expr: tp, sig, val (column offset), children, field_type (its tp)
Expr(tp, sig, val, children, field_type) ==
    [tp |-> tp, sig |-> sig, val |-> val, children |-> children,
     field_type |-> field_type]

column_ref(offset, field_type) == Expr("ColumnRef", "Unspecified", offset, <<>>, field_type)
scalar_func(sig, field_type) == Expr("ScalarFunc", sig, 0, <<>>, field_type)
aggr_func(tp, field_type, children) == Expr(tp, "Unspecified", 0, children, field_type)

\* EvalType::try_from(FieldTypeTp): the evaluation type of a field type, or
\* none for a field type that has none.
EvalType_try_from(tp) ==
    CASE tp \in {"Long", "LongLong"} -> Some("Int")
      [] tp = "Double" -> Some("Real")
      [] tp = "VarChar" -> Some("Bytes")
      [] OTHER -> None

\* util::check_aggr_exp_supported_one_child: exactly one child is required.
check_aggr_exp_supported_one_child(aggr_def) ==
    IF Len(aggr_def.children) # 1
    THEN Outcome("Err", "Expect 1 parameter", None)
    ELSE Outcome("Ok", "", None)

check_supported(aggr_def) ==
    IF aggr_def.tp # "First"
    THEN Outcome("panic", "", None)
    ELSE check_aggr_exp_supported_one_child(aggr_def)

\* RpnExpressionBuilder::build_from_expr_tree for a leaf child: a column
\* reference must lie inside the source schema, a scalar function must have a
\* dispatch-table entry.
build_from_expr_tree(child, max_columns) ==
    IF child.tp = "ColumnRef"
    THEN (IF child.val >= max_columns
          THEN Outcome("Err", "Invalid column offset", None)
          ELSE Outcome("Ok", "", Some(<<[node |-> "ColumnRef", offset |-> child.val]>>)))
    ELSE LET f == map_expr_node_to_rpn_func(child) IN
         IF f.res = "Err"
         THEN Outcome("Err", f.err, None)
         ELSE Outcome("Ok", "", Some(<<[node |-> "FnCall", meta |-> Unwrap(f.val)]>>))

Parsed(res, err, fn, schema, exp) ==
    [res |-> res, err |-> err, val |-> fn, out_schema |-> schema, out_exp |-> exp]

\* parse that pushes the output field type before comparing the types
parse_push_early(aggr_def, src_schema, schema, exp) ==
    IF aggr_def.tp # "First"
    THEN Parsed("panic", "", None, schema, exp)
    ELSE IF aggr_def.children = <<>>
    THEN Parsed("panic", "", None, schema, exp)
    ELSE
    LET child == Head(aggr_def.children)
        eval_type == EvalType_try_from(child.field_type)
        out_ft == aggr_def.field_type
        out_et == EvalType_try_from(out_ft)
    IN  IF eval_type = None
        THEN Parsed("panic", "", None, schema, exp)
        ELSE IF out_et = None
        THEN Parsed("Err", "invalid EvalType", None, schema, exp)
        ELSE IF out_et # eval_type
        THEN Parsed("Err", "Unexpected return field type", None,
                    Append(schema, out_ft), exp)
        ELSE LET schema1 == Append(schema, out_ft)
                 built == build_from_expr_tree(child, Len(src_schema))
             IN  IF built.res = "Err"
                 THEN Parsed("Err", built.err, None, schema1, exp)
                 ELSE Parsed("Ok", "", Some(FnMeta("AggrFnFirst", Unwrap(eval_type))),
                             schema1, Append(exp, Unwrap(built.val)))

parse(aggr_def, src_schema, schema, exp) ==
    IF aggr_def.tp # "First"
    THEN Parsed("panic", "", None, schema, exp)
    ELSE IF aggr_def.children = <<>>
    THEN Parsed("panic", "", None, schema, exp)
    ELSE
    LET child == Head(aggr_def.children)
        eval_type == EvalType_try_from(child.field_type)
        out_ft == aggr_def.field_type
        out_et == EvalType_try_from(out_ft)
    IN  IF eval_type = None
        THEN Parsed("panic", "", None, schema, exp)
        ELSE IF out_et = None
        THEN Parsed("Err", "invalid EvalType", None, schema, exp)
        ELSE IF out_et # eval_type
        THEN Parsed("Err", "Unexpected return field type", None, schema, exp)
        ELSE LET schema1 == Append(schema, out_ft)
                 built == build_from_expr_tree(child, Len(src_schema))
             IN  IF built.res = "Err"
                 THEN Parsed("Err", built.err, None, schema1, exp)
                 ELSE Parsed("Ok", "", Some(FnMeta("AggrFnFirst", Unwrap(eval_type))),
                             schema1, Append(exp, Unwrap(built.val)))

NoPCall ==
    [op |-> "new", res |-> "Ok", err |-> "", val |-> None,
     expr |-> aggr_func("First", "LongLong", <<>>),
     pre_schema |-> <<>>, pre_exp |-> <<>>]

(* ----------------------- AggrFnStateFirst actions ---------------------- *)
OptVals == {None} \cup {Some(x) : x \in Vals}
OptRefs == {None} \cup {Some(Ref(x)) : x \in Vals}

SeqsUpTo(S, n) == UNION {[1..k -> S] : k \in 0..n}

Columns == SeqsUpTo(OptVals, MaxCol)

\* logical row lists: physical indices of rows the column has
RowLists(physical_values) ==
    SeqsUpTo(0..(Len(physical_values) - 1), MaxLogical)

NoCall ==
    [op |-> "new", res |-> "Ok", pre |-> Empty, ty |-> "Int", value |-> None,
     repeat_times |-> 0, logical_rows |-> <<>>]

Running == call.res # "panic"

InitFirst ==
    /\ state_ty = "Int"
    /\ state = AggrFnStateFirst_new
    /\ result = << <<>> >>
    /\ column = <<>>
    /\ call = NoCall
    /\ out_schema = <<>>
    /\ out_exp = <<>>
    /\ pcall = NoPCall
    /\ vec = new(0)
    /\ cap = new_cap(0)
    /\ ops = <<>>
    /\ ret = [op |-> "new", res |-> "Ok", enc_ok |-> TRUE]

\* The executor hands the next batch's physical column to the aggregation.
NextBatch(physical_values) ==
    /\ Running
    /\ column' = physical_values
    /\ call' = [NoCall EXCEPT !.op = "batch", !.pre = state]
    /\ UNCHANGED <<state_ty, state, result, vecVars, parseVars>>

Update(T1, value) ==
    /\ Running
    /\ LET r == IF T1 = state_ty
                THEN update_unsafe(state, value)
                ELSE default_update_unsafe(state, value)
       IN  /\ state' = r.self
           /\ call' = [NoCall EXCEPT !.op = "update", !.res = r.res, !.pre = state,
                                     !.ty = T1, !.value = value]
    /\ UNCHANGED <<state_ty, result, column, vecVars, parseVars>>

UpdateRepeat(T1, value, repeat_times) ==
    /\ Running
    /\ LET r == IF T1 = state_ty
                THEN update_repeat_unsafe(state, value, repeat_times)
                ELSE default_update_repeat_unsafe(state, value, repeat_times)
       IN  /\ state' = r.self
           /\ call' = [NoCall EXCEPT !.op = "update_repeat", !.res = r.res,
                                     !.pre = state, !.ty = T1, !.value = value,
                                     !.repeat_times = repeat_times]
    /\ UNCHANGED <<state_ty, result, column, vecVars, parseVars>>

UpdateVector(T1, logical_rows) ==
    /\ Running
    /\ LET physical_values == column
           r == IF T1 = state_ty
                THEN update_vector_unsafe(state, physical_values, logical_rows)
                ELSE default_update_vector_unsafe(state, physical_values, logical_rows)
       IN  /\ state' = r.self
           /\ call' = [NoCall EXCEPT !.op = "update_vector", !.res = r.res,
                                     !.pre = state, !.ty = T1,
                                     !.logical_rows = logical_rows]
    /\ UNCHANGED <<state_ty, result, column, vecVars, parseVars>>

PushResult ==
    /\ Running
    /\ Len(result[1]) < MaxOut
    /\ LET r == push_result(state, result) IN
        /\ result' = r.target
        /\ call' = [NoCall EXCEPT !.op = "push_result", !.res = r.res, !.pre = state]
    /\ UNCHANGED <<state_ty, state, column, vecVars, parseVars>>

NextFirst ==
    \/ \E T1 \in Types, value \in OptRefs : Update(T1, value)
    \/ \E T1 \in Types, value \in OptRefs, repeat_times \in 0..MaxRepeat :
           UpdateRepeat(T1, value, repeat_times)
    \/ \E physical_values \in Columns : NextBatch(physical_values)
    \/ \E T1 \in Types, logical_rows \in RowLists(column) :
           UpdateVector(T1, logical_rows)
    \/ PushResult

SpecFirst == InitFirst /\ [][NextFirst]_vars

(* --------------------- AggrFnStateFirst properties --------------------- *)
UpdateOps == {"update", "update_repeat", "update_vector"}

\* The state after single updates of the values vs[1], vs[2], ... in order.
RECURSIVE ApplySingles(_, _)
ApplySingles(self, vs) ==
    IF vs = <<>> THEN self ELSE ApplySingles(update_unsafe(self, Head(vs)).self, Tail(vs))

\* column[rows[0]], column[rows[1]], ... as borrowed optional values
Selected(physical_values, logical_rows) ==
    [k \in 1..Len(logical_rows) |->
        get_option_ref(physical_values, logical_rows[k]).val]

Last(q) == q[Len(q)]

\* C7: the accumulator starts Empty and becomes Valued only by an update call;
\* once Valued, no single, repeated or vectorized update changes the state,
\* and every push_result appends the held value.
C7_FirstValueSticks ==
    /\ state = Empty
    /\ [][(state = Empty /\ state' # Empty) => call'.op \in UpdateOps]_vars
    /\ [][state.tag = "Valued" => state' = state]_vars
    /\ [][(state.tag = "Valued" /\ call'.op = "push_result")
             => Last(result'[1]) = state.v]_vars

\* A Valued accumulator that has pushed its value twice and was then given a
\* vectorized update whose first logical row holds a different value.
C7_Witness ==
    /\ state.tag = "Valued" /\ state.v # None
    /\ call.op = "update_vector" /\ call.res = "Ok"
    /\ call.pre = state
    /\ call.logical_rows # <<>>
    /\ column[Head(call.logical_rows) + 1] # state.v
    /\ Len(result[1]) >= 2
    /\ result[1][Len(result[1])] = state.v
    /\ result[1][Len(result[1]) - 1] = state.v

\* C8: update_vector(column, rows) leaves the accumulator as single updates
\* of column[rows[0]], column[rows[1]], ... in row-list order would, from any
\* starting state; on Empty with a non-empty list it holds column[rows[0]].
C8_VectorEqualsSingles ==
    (call.op = "update_vector" /\ call.ty = state_ty) =>
        /\ call.res = "Ok"
        /\ state = ApplySingles(call.pre, Selected(column, call.logical_rows))
        /\ (call.pre = Empty /\ call.logical_rows # <<>>) =>
               state = Valued(column[Head(call.logical_rows) + 1])

\* Scenario C: column [None, Some(2)] with rows [1, 0] on Empty holds 2.
C8_Witness ==
    /\ call.op = "update_vector" /\ call.ty = state_ty
    /\ call.pre = Empty
    /\ column = <<None, Some(2)>>
    /\ call.logical_rows = <<1, 0>>
    /\ state = Valued(Some(2))

\* C9: update_repeat(v, n) with n >= 1 leaves the accumulator as n sequential
\* single updates of v would, for null and non-null v and any starting state.
C9_RepeatEqualsSingles ==
    (call.op = "update_repeat" /\ call.ty = state_ty /\ call.repeat_times >= 1) =>
        /\ call.res = "Ok"
        /\ state = ApplySingles(call.pre, [k \in 1..call.repeat_times |-> call.value])

\* A repeated update of a non-null value, 2 times or more, on an accumulator
\* that already holds another value.
C9_Witness ==
    /\ call.op = "update_repeat" /\ call.ty = state_ty
    /\ call.repeat_times >= 2
    /\ call.pre.tag = "Valued"
    /\ call.value # None
    /\ call.pre.v # map_to_owned_value(call.value)

\* C10: update_vector with an empty logical row list leaves the state as it
\* was whatever the column holds; an Empty state stays Empty, push_result then
\* yields null, and an update with a non-empty list still sets the value.
C10_EmptyRowsNoEffect ==
    (call.op = "update_vector" /\ call.ty = state_ty /\ call.logical_rows = <<>>) =>
        /\ call.res = "Ok"
        /\ state = call.pre
        /\ state = Empty =>
            /\ push_result(state, << <<>> >>).target = << <<None>> >>
            /\ \A physical_values \in Columns :
                 \A logical_rows \in RowLists(physical_values) \ {<<>>} :
                    update_vector_unsafe(state, physical_values, logical_rows).self
                        = Valued(physical_values[Head(logical_rows) + 1])

\* An Empty accumulator after update_vector of a non-empty column with no
\* logical rows.
C10_Witness ==
    /\ call.op = "update_vector" /\ call.ty = state_ty
    /\ call.logical_rows = <<>>
    /\ column # <<>>
    /\ column[1] # None
    /\ state = Empty

\* C11: each push_result call on the one-element target appends exactly one
\* entry, null when the state is Empty and the held value otherwise, and
\* leaves the state alone; no other call touches the output, so the output
\* holds one entry per push_result call, each showing the state at its call.
C11_PushResultAppendsOne ==
    /\ Len(result) = 1 /\ result[1] = <<>>
    /\ [][call'.op = "push_result" =>
             /\ call'.res = "Ok"
             /\ Len(result') = 1
             /\ result'[1] = Append(result[1],
                                    IF state.tag = "Valued" THEN state.v ELSE None)
             /\ state' = state]_vars
    /\ [][call'.op # "push_result" => result' = result]_vars

\* Two pushes around an update: null from the Empty state, then the value.
C11_Witness ==
    /\ call.op = "push_result"
    /\ state.tag = "Valued" /\ state.v # None
    /\ result = << <<None, state.v>> >>

\* The first value an update call delivers: its value, or the column's value
\* at the first logical row.
FirstArrival(c) ==
    IF c.op = "update_vector"
    THEN (IF c.logical_rows = <<>> THEN <<>> ELSE <<column[Head(c.logical_rows) + 1]>>)
    ELSE (IF c.op = "update_repeat" /\ c.repeat_times = 0
          THEN <<>>
          ELSE <<map_to_owned_value(c.value)>>)

\* C12: when the first update reaching an Empty accumulator carries null the
\* state becomes Valued(null); later updates never replace it and push_result
\* yields null.
C12_NullIsAFirstValue ==
    /\ []((/\ call.op \in UpdateOps /\ call.ty = state_ty
           /\ call.pre = Empty /\ FirstArrival(call) = <<None>>)
          => state = Valued(None))
    /\ [][state = Valued(None) => state' = Valued(None)]_vars
    /\ [][(state = Valued(None) /\ call'.op = "push_result")
             => Last(result'[1]) = None]_vars

\* Valued(null) survives a vectorized update whose first logical row holds a
\* value, after push_result already yielded null.
C12_Witness ==
    /\ state = Valued(None)
    /\ call.op = "update_vector" /\ call.ty = state_ty /\ call.res = "Ok"
    /\ call.pre = Valued(None)
    /\ call.logical_rows # <<>>
    /\ column[Head(call.logical_rows) + 1] # None
    /\ result[1] # <<>> /\ Last(result[1]) = None

\* C16: an update call whose value type differs from the state's type fails
\* fatally and leaves the state as it was.
C16_MismatchedTypeFails ==
    (call.op \in UpdateOps /\ call.ty # state_ty) =>
        /\ call.res = "panic"
        /\ state = call.pre

\* A mismatched single update of a non-null value on an Empty accumulator.
C16_Witness ==
    /\ call.op = "update" /\ call.ty # state_ty
    /\ call.value # None
    /\ call.pre = Empty
    /\ call.res = "panic"

\* C17: update_repeat with repeat_times = 0 fails fatally and leaves the
\* state, Empty or Valued, as it was.
C17_RepeatZeroRejected ==
    (call.op = "update_repeat" /\ call.repeat_times = 0) =>
        /\ call.res = "panic"
        /\ state = call.pre

\* A correctly typed update_repeat(Some(v), 0) on an Empty accumulator.
C17_Witness ==
    /\ call.op = "update_repeat" /\ call.ty = state_ty
    /\ call.repeat_times = 0
    /\ call.value # None
    /\ call.pre = Empty /\ state = Empty
    /\ call.res = "panic"

(* ------------------------------ parser actions ------------------------- *)
FieldTps == {"Long", "LongLong", "Double", "Geometry"}

\* child operands: columns of each field type, columns past the source
\* schema, a dispatchable and a non-dispatchable scalar function
Children ==
    {column_ref(0, ft) : ft \in FieldTps \ {"Long"}}
        \cup {column_ref(o, "LongLong") : o \in 1..MaxOffset}
        \cup {scalar_func("IfNullInt", "LongLong"), scalar_func("AbsInt", "LongLong")}

\* aggregate descriptors: FIRST with no or one child and any declared type,
\* FIRST with two children, and an aggregate of another kind
AggrDefs ==
    {aggr_func("First", ft, <<>>) : ft \in {"LongLong"}}
        \cup {aggr_func("First", ft, <<c>>) : ft \in FieldTps, c \in Children}
        \cup {aggr_func("First", "LongLong",
                        <<column_ref(0, "LongLong"), column_ref(0, "Double")>>)}
        \cup {aggr_func("Count", "LongLong", <<column_ref(0, "LongLong")>>)}

\* expression nodes handed to the dispatch table
FuncNodes == {scalar_func(sig, ft) : sig \in ScalarFuncSigs, ft \in {"LongLong", "VarChar"}}

SrcSchema == <<"LongLong">>

ParserRunning == pcall.res # "panic"

CheckSupported(aggr_def) ==
    /\ ParserRunning
    /\ LET r == check_supported(aggr_def) IN
        pcall' = [NoPCall EXCEPT !.op = "check_supported", !.res = r.res,
                                 !.err = r.err, !.expr = aggr_def,
                                 !.pre_schema = out_schema, !.pre_exp = out_exp]
    /\ UNCHANGED <<out_schema, out_exp, vecVars, firstVars>>

Parse(aggr_def) ==
    /\ ParserRunning
    /\ Len(out_schema) < MaxParse
    /\ LET r == parse(aggr_def, SrcSchema, out_schema, out_exp) IN
        /\ out_schema' = r.out_schema
        /\ out_exp' = r.out_exp
        /\ pcall' = [NoPCall EXCEPT !.op = "parse", !.res = r.res, !.err = r.err,
                                    !.val = r.val, !.expr = aggr_def,
                                    !.pre_schema = out_schema, !.pre_exp = out_exp]
    /\ UNCHANGED <<vecVars, firstVars>>

MapExprNode(expr) ==
    /\ ParserRunning
    /\ LET r == map_expr_node_to_rpn_func(expr) IN
        pcall' = [NoPCall EXCEPT !.op = "map_expr_node_to_rpn_func", !.res = r.res,
                                 !.err = r.err, !.val = r.val, !.expr = expr,
                                 !.pre_schema = out_schema, !.pre_exp = out_exp]
    /\ UNCHANGED <<out_schema, out_exp, vecVars, firstVars>>

InitParse ==
    /\ out_schema = <<>>
    /\ out_exp = <<>>
    /\ pcall = NoPCall
    /\ vec = new(0)
    /\ cap = new_cap(0)
    /\ ops = <<>>
    /\ ret = [op |-> "new", res |-> "Ok", enc_ok |-> TRUE]
    /\ state_ty = "Int"
    /\ state = AggrFnStateFirst_new
    /\ result = << <<>> >>
    /\ column = <<>>
    /\ call = NoCall

NextParse ==
    \/ \E aggr_def \in AggrDefs : CheckSupported(aggr_def)
    \/ \E aggr_def \in AggrDefs : Parse(aggr_def)
    \/ \E expr \in FuncNodes : MapExprNode(expr)

SpecParse == InitParse /\ [][NextParse]_vars

(* --------------------- parser and dispatch properties ------------------ *)
ChildEvalType(e) == EvalType_try_from(Head(e.children).field_type)

\* a FIRST descriptor whose declared output type and child operand type both
\* have an evaluation type, and the two differ
TypeMismatch(e) ==
    /\ e.tp = "First"
    /\ e.children # <<>>
    /\ ChildEvalType(e) # None
    /\ EvalType_try_from(e.field_type) # None
    /\ EvalType_try_from(e.field_type) # ChildEvalType(e)

\* a descriptor with a schema/type error: wrong kind, wrong arity, a field
\* type without evaluation type, or output and operand types that disagree
SchemaError(e) ==
    \/ e.tp # "First"
    \/ Len(e.children) # 1
    \/ ChildEvalType(e) = None
    \/ EvalType_try_from(e.field_type) = None
    \/ TypeMismatch(e)

\* C13: parse of a FIRST descriptor whose declared output type maps to another
\* evaluation type than its child returns the type-mismatch error, builds no
\* aggregate function and appends nothing to out_schema or out_exp.
C13_TypeMismatchRejected ==
    (pcall.op = "parse" /\ TypeMismatch(pcall.expr)) =>
        /\ pcall.res = "Err"
        /\ pcall.err = "Unexpected return field type"
        /\ pcall.val = None
        /\ out_schema = pcall.pre_schema
        /\ out_exp = pcall.pre_exp

\* Scenario B (declared Double, child column LongLong) parsed after a
\* descriptor that was accepted.
C13_Witness ==
    /\ pcall.op = "parse"
    /\ pcall.expr = aggr_func("First", "Double", <<column_ref(0, "LongLong")>>)
    /\ pcall.res = "Err"
    /\ Len(out_schema) = 1 /\ Len(out_exp) = 1

\* C14: check_supported and parse never panic on a descriptor with a
\* schema/type error, and parse returns an error for every such descriptor
\* that check_supported let through.
C14_SchemaErrorsNeverPanic ==
    (pcall.op \in {"check_supported", "parse"} /\ SchemaError(pcall.expr)) =>
        /\ pcall.res # "panic"
        /\ (pcall.op = "parse" /\ check_supported(pcall.expr).res = "Ok")
               => pcall.res = "Err"

\* C15: map_expr_node_to_rpn_func answers every signature with exactly one
\* function descriptor when the table has an entry for it and with the "not
\* supported in batch mode" error when it has none, whatever else the node
\* carries.
C15_DispatchTotal ==
    (pcall.op = "map_expr_node_to_rpn_func") =>
        LET sig == pcall.expr.sig IN
        /\ pcall.res \in {"Ok", "Err"}
        /\ pcall.res = "Ok" <=> sig \in DOMAIN RpnFnTable
        /\ pcall.res = "Ok" => pcall.val = Some(RpnFnTable[sig])
        /\ pcall.res = "Err" =>
               /\ pcall.val = None
               /\ pcall.err = "ScalarFunction is not supported in batch mode"
        /\ \A e \in FuncNodes :
               e.sig = sig =>
                   map_expr_node_to_rpn_func(e) = Outcome(pcall.res, pcall.err, pcall.val)

\* A signature without table entry answered with the error.
C15_Witness ==
    /\ pcall.op = "map_expr_node_to_rpn_func"
    /\ pcall.expr.sig = "AbsInt"
    /\ pcall.res = "Err"
    /\ pcall.val = None

\* C21: parse keeps out_schema and out_exp in lockstep: a successful parse
\* appends exactly one entry to each, a parse that returns an error (type
\* mismatch or a child expression that fails to build) leaves both as they
\* were, so the two lists always have the same length.
C21_SchemaExpLockstep ==
    /\ Len(out_schema) = Len(out_exp)
    /\ (pcall.op = "parse" /\ pcall.res = "Ok") =>
           /\ Len(out_schema) = Len(pcall.pre_schema) + 1
           /\ Len(out_exp) = Len(pcall.pre_exp) + 1
    /\ (pcall.op = "parse" /\ pcall.res = "Err") =>
           /\ out_schema = pcall.pre_schema
           /\ out_exp = pcall.pre_exp

Init ==
    /\ \E init_cap \in {0, MaxHint} :
        /\ vec = new(init_cap)
        /\ cap = new_cap(init_cap)
    /\ ops = <<>>
    /\ ret = [op |-> "new", res |-> "Ok", enc_ok |-> TRUE]
    /\ state_ty = "Int"
    /\ state = AggrFnStateFirst_new
    /\ result = << <<>> >>
    /\ column = <<>>
    /\ call = NoCall
    /\ out_schema = <<>>
    /\ out_exp = <<>>
    /\ pcall = NoPCall

Next ==
    \/ \E v \in Ints : AppendValue(v)
    \/ AppendNull

Spec == Init /\ [][Next]_vars

====
